---- MODULE Spec2Model ----
(***************************************************************************)
(* A model of action-read-yaml (src/index.js): the document is flattened   *)
(* into dotted keys, every leaf is run through resolveVariables, and the   *)
(* resolved mapping is filtered, renamed and published.                    *)
(*                                                                         *)
(* Text is a sequence of one-character strings, so that matching,          *)
(* replacing and joining are computed character by character.              *)
(*                                                                         *)
(* Left out: the core.info log lines, the text of the file before parsing  *)
(* (the document is the tree yaml.load returns, its scalars all strings    *)
(* under FAILSAFE_SCHEMA), and patterns that are not valid regular         *)
(* expressions.                                                            *)
(***************************************************************************)
EXTENDS Naturals, Sequences, FiniteSets, TLC

\* ------------------------------------------------------------------ bounds

\* Most entries of a mapping (the root, or a nested mapping).
MaxEntries == 2

\* ------------------------------------------------------------------ text

Digits == <<"0", "1", "2", "3", "4", "5", "6", "7", "8", "9">>

IsDigit(c) == \E i \in 1..Len(Digits) : Digits[i] = c

DigitVal(c) == (CHOOSE i \in 1..Len(Digits) : Digits[i] = c) - 1

RECURSIVE StrToNat(_)
StrToNat(s) ==
    IF s = <<>> THEN 0
    ELSE 10 * StrToNat(SubSeq(s, 1, Len(s) - 1)) + DigitVal(s[Len(s)])

\* String(i) for an array index i < 10 (the sequences of the model are short).
NatToStr(n) == <<Digits[n + 1]>>

\* s.startsWith(t, i), i counted from 1.
MatchesAt(s, t, i) ==
    /\ i >= 1
    /\ i + Len(t) - 1 <= Len(s)
    /\ \A j \in 1..Len(t) : s[i + j - 1] = t[j]

\* s.indexOf(t), counted from 1; 0 when t does not occur.
IndexOf(s, t) ==
    IF \E i \in 1..(Len(s) + 1) : MatchesAt(s, t, i)
    THEN CHOOSE i \in 1..(Len(s) + 1) :
            /\ MatchesAt(s, t, i)
            /\ \A j \in 1..(i - 1) : ~MatchesAt(s, t, j)
    ELSE 0

\* ------------------------------------------------------------------ JS objects

\* A property name that is a canonical array index: such own properties are
\* enumerated first, in ascending numeric order, by Object.keys/entries.
IsArrayIndex(k) ==
    /\ Len(k) > 0
    /\ \A i \in 1..Len(k) : IsDigit(k[i])
    /\ (Len(k) > 1 => k[1] # "0")

\* The pairs of ps (<<key, value>>, in insertion order) whose key is an array
\* index, in ascending numeric order.
RECURSIVE SortedIndexPairs(_)
SortedIndexPairs(ps) ==
    LET idx == {i \in 1..Len(ps) : IsArrayIndex(ps[i][1])}
    IN  IF idx = {} THEN <<>>
        ELSE LET m == CHOOSE i \in idx :
                        \A j \in idx : StrToNat(ps[i][1]) <= StrToNat(ps[j][1])
                 rest == [j \in 1..(Len(ps) - 1) |->
                            IF j < m THEN ps[j] ELSE ps[j + 1]]
             IN  <<ps[m]>> \o SortedIndexPairs(rest)

IsNotIndexPair(p) == ~IsArrayIndex(p[1])

\* Object.entries(o) of an object whose own properties were created in the
\* order of ps: array-index keys ascending, then the others as inserted.
ObjectEntries(ps) == SortedIndexPairs(ps) \o SelectSeq(ps, IsNotIndexPair)

\* o[k] = v on an object with own properties ps: an existing property keeps
\* its place and takes the new value, a new one is appended.
SetProperty(ps, k, v) ==
    IF \E i \in 1..Len(ps) : ps[i][1] = k
    THEN [i \in 1..Len(ps) |-> IF ps[i][1] = k THEN <<k, v>> ELSE ps[i]]
    ELSE Append(ps, <<k, v>>)

HasOwn(ps, k) == \E i \in 1..Len(ps) : ps[i][1] = k

OwnValue(ps, k) == ps[CHOOSE i \in 1..Len(ps) : ps[i][1] = k][2]

\* ------------------------------------------------------------------ resolveVariables

NoMatch == [index |-> 0, text |-> <<>>, ref |-> <<>>]

\* Whether /\$\(([^\)]+)\)/ matches s at i with the closing parenthesis at j:
\* "$(", one or more characters other than ")", then ")".
TokenAt(s, i, j) ==
    /\ i >= 1
    /\ j <= Len(s)
    /\ j >= i + 3
    /\ s[i] = "$"
    /\ s[i + 1] = "("
    /\ s[j] = ")"
    /\ \A k \in (i + 2)..(j - 1) : s[k] # ")"

\* current.match(pattern): the leftmost match, with found[0] as text and
\* found[1] as ref; NoMatch for null.
TokenMatch(s) ==
    IF \E i \in 1..Len(s), j \in 1..Len(s) : TokenAt(s, i, j)
    THEN LET i == CHOOSE a \in 1..Len(s) :
                    /\ \E j \in 1..Len(s) : TokenAt(s, a, j)
                    /\ \A b \in 1..(a - 1) : \A j \in 1..Len(s) : ~TokenAt(s, b, j)
             j == CHOOSE c \in 1..Len(s) : TokenAt(s, i, c)
         IN  [index |-> i, text |-> SubSeq(s, i, j), ref |-> SubSeq(s, i + 2, j - 1)]
    ELSE NoMatch

ToStringName == <<"t", "o", "S", "t", "r", "i", "n", "g">>

ConstructorName == <<"c", "o", "n", "s", "t", "r", "u", "c", "t", "o", "r">>

\* The properties lookup inherits from Object.prototype that the documents of
\* the model name (lookup is the object literal {} of run).
ObjectPrototypeNames == {ToStringName, ConstructorName}

Undefined == [t |-> "undefined", s |-> <<>>]

\* lookup[ref]: an own property, else one inherited from Object.prototype
\* (a function), else undefined.
LookupGet(ps, ref) ==
    IF HasOwn(ps, ref) THEN [t |-> "string", s |-> OwnValue(ps, ref)]
    ELSE IF ref \in ObjectPrototypeNames THEN [t |-> "function", s |-> ref]
    ELSE Undefined

\* !v is false.
Truthy(v) == v.t = "function" \/ (v.t = "string" /\ v.s # <<>>)

ObjectUndefinedText == <<"[", "o", "b", "j", "e", "c", "t", " ", "U", "n", "d", "e", "f", "i", "n", "e", "d", "]">>

\* The text a function given to String.prototype.replace as the replacement
\* returns, called with this undefined and the matched text as first argument:
\* Object.prototype.toString gives "[object Undefined]"; Object (the
\* constructor property) wraps the matched text, which converts back to it.
CallReplacer(name, matched) ==
    IF name = ToStringName THEN ObjectUndefinedText ELSE matched

\* The grave accent character, which a string of this module cannot hold.
BackTick == "grave"

\* GetSubstitution of String.prototype.replace for a string pattern (no
\* captures): in the replacement text "$$" stands for "$", "$&" for the
\* matched text, "$`" for the text before the match and "$'" for the text
\* after it; every other character stands for itself.
RECURSIVE GetSubstitution(_, _, _, _)
GetSubstitution(matched, str, position, template) ==
    IF template = <<>> THEN <<>>
    ELSE IF template[1] = "$" /\ Len(template) >= 2
              /\ template[2] \in {"$", "&", BackTick, "'"}
         THEN (CASE template[2] = "$" -> <<"$">>
                 [] template[2] = "&" -> matched
                 [] template[2] = BackTick -> SubSeq(str, 1, position - 1)
                 [] OTHER -> SubSeq(str, position + Len(matched), Len(str)))
              \o GetSubstitution(matched, str, position,
                                 SubSeq(template, 3, Len(template)))
         ELSE <<template[1]>>
              \o GetSubstitution(matched, str, position,
                                 SubSeq(template, 2, Len(template)))

\* current.replace(search, v) with search a string: only its first
\* occurrence is replaced.
StringReplace(str, search, v) ==
    LET position == IndexOf(str, search)
    IN  IF position = 0 THEN str
        ELSE SubSeq(str, 1, position - 1)
             \o (IF v.t = "function" THEN CallReplacer(v.s, search)
                 ELSE GetSubstitution(search, str, position, v.s))
             \o SubSeq(str, position + Len(search), Len(str))

\* `Variable "${ref}" is not defined`
UndefinedVariableMessage(ref) ==
    <<"V", "a", "r", "i", "a", "b", "l", "e", " ", "\"">> \o ref \o
    <<"\"", " ", "i", "s", " ", "n", "o", "t", " ", "d", "e", "f", "i", "n", "e", "d">>

\* ------------------------------------------------------------------ the filter

\* new RegExp(src, "g") for the pattern sources of the model: an optional
\* leading "^", then atoms: "\c" (the character c), "." (any character) or a
\* plain character.
RECURSIVE RegExpAtoms(_)
RegExpAtoms(src) ==
    IF src = <<>> THEN <<>>
    ELSE IF src[1] = "\\" /\ Len(src) >= 2
         THEN <<[any |-> FALSE, c |-> src[2]]>>
              \o RegExpAtoms(SubSeq(src, 3, Len(src)))
         ELSE <<[any |-> src[1] = ".", c |-> src[1]]>>
              \o RegExpAtoms(SubSeq(src, 2, Len(src)))

RegExpCompile(src) ==
    IF src # <<>> /\ src[1] = "^"
    THEN [anchored |-> TRUE, atoms |-> RegExpAtoms(SubSeq(src, 2, Len(src)))]
    ELSE [anchored |-> FALSE, atoms |-> RegExpAtoms(src)]

\* Whether re matches s with k characters of s before the match.
RegExpMatchesAt(re, s, k) ==
    /\ k + Len(re.atoms) <= Len(s)
    /\ re.anchored => k = 0
    /\ \A j \in 1..Len(re.atoms) :
          re.atoms[j].any \/ re.atoms[j].c = s[k + j]

\* re.exec(s) of a global regular expression whose lastIndex is from: the
\* first match at or after from. index is the number of characters before the
\* match; lastIndex is what exec leaves in re.lastIndex (the end of the match,
\* or 0 when there is none).
RegExpExec(re, s, from) ==
    IF \E k \in from..Len(s) : RegExpMatchesAt(re, s, k)
    THEN LET k == CHOOSE a \in from..Len(s) :
                    /\ RegExpMatchesAt(re, s, a)
                    /\ \A b \in from..Len(s) : b < a => ~RegExpMatchesAt(re, s, b)
         IN  [found |-> TRUE, index |-> k, lastIndex |-> k + Len(re.atoms)]
    ELSE [found |-> FALSE, index |-> 0, lastIndex |-> 0]

\* re.test(s): whether exec finds a match, and the lastIndex it leaves.
RegExpTest(re, s, from) ==
    LET m == RegExpExec(re, s, from)
    IN  [result |-> m.found, lastIndex |-> m.lastIndex]

\* The matching loop of s.replace(re, "") for a global re: exec is repeated
\* from the end of the last match (one further after an empty match) and the
\* text between the matches is kept. copied is how much of s is dealt with.
RECURSIVE RemoveMatchesFrom(_, _, _, _)
RemoveMatchesFrom(re, s, from, copied) ==
    LET m == RegExpExec(re, s, from)
    IN  IF from > Len(s) \/ ~m.found THEN SubSeq(s, copied + 1, Len(s))
        ELSE SubSeq(s, copied + 1, m.index)
             \o RemoveMatchesFrom(re, s,
                    IF m.lastIndex = m.index THEN m.lastIndex + 1 ELSE m.lastIndex,
                    m.lastIndex)

\* A slip: fullKey.replace of a regular expression without the g flag, which
\* removes the first match only.
RemoveFirstMatchOnly(re, s) ==
    LET m == RegExpExec(re, s, 0)
    IN  IF ~m.found THEN s
        ELSE SubSeq(s, 1, m.index) \o SubSeq(s, m.lastIndex + 1, Len(s))

\* fullKey.replace(patternRegex, ""): replace sets lastIndex to 0 first and
\* removes every match.
RegExpReplaceAll(re, s) == RemoveMatchesFrom(re, s, 0, 0)

\* A slip: the key is tested, but patternRegex.lastIndex stays where test
\* left it (the output key cut out of fullKey without patternRegex, and the
\* reset forgotten).
FilterKeyNoReset(re, fullKey, lastIndex) ==
    LET t == RegExpTest(re, fullKey, lastIndex)
    IN  IF t.result
        THEN [include |-> TRUE,
              outputKey |-> RemoveMatchesFrom(re, fullKey, 0, 0),
              lastIndex |-> t.lastIndex]
        ELSE [include |-> FALSE, outputKey |-> fullKey, lastIndex |-> t.lastIndex]

\* The body of the publish loop that decides one key, entered with
\* patternRegex.lastIndex = lastIndex: include, outputKey and the lastIndex
\* it leaves (replace ends with lastIndex 0, and the code sets it to 0 again).
FilterKey(re, fullKey, lastIndex) ==
    LET t == RegExpTest(re, fullKey, lastIndex)
    IN  IF t.result
        THEN [include |-> TRUE,
              outputKey |-> RegExpReplaceAll(re, fullKey),
              lastIndex |-> 0]
        ELSE [include |-> FALSE, outputKey |-> fullKey, lastIndex |-> t.lastIndex]

\* A slip: an envNameCleaner of /\./g, which leaves "-" in the name.
CleanDotsOnly(s) == [i \in 1..Len(s) |-> IF s[i] = "." THEN "_" ELSE s[i]]

\* outputKey.replace(/[.\-]/g, "_"): the matches are single characters, each
\* replaced where it stands.
RECURSIVE EnvNameClean(_)
EnvNameClean(s) ==
    IF s = <<>> THEN <<>>
    ELSE <<IF s[1] = "." \/ s[1] = "-" THEN "_" ELSE s[1]>>
         \o EnvNameClean(SubSeq(s, 2, Len(s)))

\* `${envPrefix}_${outputKey.replace(envNameCleaner, "_")}`
EnvName(prefix, outputKey) == prefix \o <<"_">> \o EnvNameClean(outputKey)

\* ------------------------------------------------------------------ the document

\* A node of the parsed document (yaml.load with FAILSAFE_SCHEMA: every scalar
\* is a string). kids holds a mapping's <<key, node>> pairs in declaration
\* order, or a sequence's <<index, node>> pairs.
Leaf(s) == [kind |-> "string", s |-> s, kids |-> <<>>]

Mapping(kids) == [kind |-> "mapping", s |-> <<>>, kids |-> kids]

Sequence(items) ==
    [kind |-> "sequence", s |-> <<>>,
     kids |-> [i \in 1..Len(items) |-> <<NatToStr(i - 1), items[i]>>]]

\* val && typeof val === "object"
IsContainer(node) == node.kind # "string"

\* traverse(node, path): what it does, in order. A leaf is handed to
\* resolveVariables and stored under fullKey; a sequence is first published
\* raw as fullKey.array. The children are taken in Object.entries order.
RECURSIVE Traverse(_, _)
Traverse(node, path) ==
    LET ents == ObjectEntries(node.kids)
        RECURSIVE Visit(_)
        Visit(i) ==
            IF i > Len(ents) THEN <<>>
            ELSE LET key == ents[i][1]
                     val == ents[i][2]
                     fullKey == IF path # <<>> THEN path \o <<".">> \o key ELSE key
                 IN  (IF IsContainer(val)
                      THEN (IF val.kind = "sequence"
                            THEN <<[op |-> "array",
                                    key |-> fullKey \o <<".", "a", "r", "r", "a", "y">>,
                                    val |-> val]>>
                            ELSE <<>>)
                           \o Traverse(val, fullKey)
                      ELSE <<[op |-> "leaf", key |-> fullKey, val |-> val]>>)
                     \o Visit(i + 1)
    IN  Visit(1)

\* ------------------------------------------------------------------ inputs

KeyXY == <<"x", "-", "y">>

KeyOne == <<"1">>

KeyXYZ == <<"x", "-", "y", ".", "z">>

KeyZ == <<"z">>

TopKeys == {KeyXY, KeyOne, KeyXYZ}

\* "$(" name ")"
Token(name) == <<"$", "(">> \o name \o <<")">>

PlainValue == <<"v">>

Scalars ==
    {<<>>, PlainValue, <<"$", "$">>, <<"$", "&">>,
     Token(KeyXY), Token(KeyOne), Token(ToStringName),
     Token(KeyOne) \o <<"-">> \o Token(KeyXY)}

NestedNodes ==
    {Mapping(<<<<KeyZ, Leaf(PlainValue)>>>>), Sequence(<<Leaf(PlainValue)>>)}

TopNodes == {Leaf(s) : s \in Scalars} \cup NestedNodes

\* The documents: a root mapping of 1..MaxEntries entries with distinct keys
\* (the parser rejects a mapping that repeats a key).
Docs ==
    {Mapping(kids) : kids \in
        {f \in UNION {[1..n -> TopKeys \X TopNodes] : n \in 1..MaxEntries} :
            \A i, j \in DOMAIN f : f[i][1] = f[j][1] => i = j}}

\* ^x-y\.
PatternPrefix == <<"^", "x", "-", "y", "\\", ".">>

PatternZ == <<"z">>

\* The options of the action: "key-path" is the one the README documents,
\* "key-path-pattern" the one run reads. An option that is not set reads "".
Options ==
    {[config |-> <<"c">>, keyPath |-> kp, keyPathPattern |-> kpp, envVarPrefix |-> pre] :
        kp \in {<<>>, PatternPrefix},
        kpp \in {<<>>, PatternPrefix, PatternZ},
        pre \in {<<>>, <<"P">>}}

\* core.getInput(name)
GetInput(opts, name) ==
    CASE name = "config" -> opts.config
      [] name = "key-path" -> opts.keyPath
      [] name = "key-path-pattern" -> opts.keyPathPattern
      [] name = "env-var-prefix" -> opts.envVarPrefix
      [] OTHER -> <<>>

\* ------------------------------------------------------------------ state

VARIABLES
    doc,            \* the document the file holds
    options,        \* the options the workflow sets
    pc,             \* where the run is
    inTry,          \* whether the try block of run is on the stack
    filterPattern,  \* run's filterPattern
    envPrefix,      \* run's envPrefix
    visits,         \* what traverse does, in order
    vi,             \* the visit traverse is at
    resolvedValues, \* run's resolvedValues: <<key, value>> pairs as inserted
    current,        \* resolveVariables' current
    found,          \* resolveVariables' found
    entries,        \* Object.entries(resolvedValues) of the publish loop
    ei,             \* the entry the publish loop is at
    lastIndex,      \* patternRegex.lastIndex
    outputs,        \* the core.setOutput calls made
    envs,           \* the core.exportVariable calls made
    errorLog,       \* the core.error calls made
    failed,         \* the message given to core.setFailed, <<>> if none
    uncaught        \* the message of an error no handler caught, <<>> if none

vars ==
    <<doc, options, pc, inTry, filterPattern, envPrefix, visits, vi,
      resolvedValues, current, found, entries, ei, lastIndex, outputs, envs,
      errorLog, failed, uncaught>>

Init ==
    /\ doc \in Docs
    /\ options \in Options
    /\ pc = "validate"
    /\ inTry = TRUE
    /\ filterPattern = <<>>
    /\ envPrefix = <<>>
    /\ visits = <<>>
    /\ vi = 1
    /\ resolvedValues = <<>>
    /\ current = <<>>
    /\ found = NoMatch
    /\ entries = <<>>
    /\ ei = 1
    /\ lastIndex = 0
    /\ outputs = <<>>
    /\ envs = <<>>
    /\ errorLog = <<>>
    /\ failed = <<>>
    /\ uncaught = <<>>

SubscriptionInvalidText == <<"Subscription is not valid">>

ReadFailedText == <<"Failed to read YAML">>

\* validateSubscription: a 403 answer logs an error and exits the process;
\* any other outcome (an answer, a timeout, no network) lets run go on.
ValidateSubscription ==
    /\ pc = "validate"
    /\ \E answer \in {"ok", "forbidden", "unreachable"} :
          IF answer = "forbidden"
          THEN /\ errorLog' = Append(errorLog, SubscriptionInvalidText)
               /\ pc' = "exited"
          ELSE /\ errorLog' = errorLog
               /\ pc' = "getInputs"
    /\ UNCHANGED <<doc, options, inTry, filterPattern, envPrefix, visits, vi,
                   resolvedValues, current, found, entries, ei, lastIndex,
                   outputs, envs, failed, uncaught>>

\* run reads its options and calls fs.readFile, which returns at once: the
\* try block ends here, and the callback runs later from the event loop.
GetInputs ==
    /\ pc = "getInputs"
    /\ filterPattern' = GetInput(options, "key-path-pattern")
    /\ envPrefix' = GetInput(options, "env-var-prefix")
    /\ inTry' = FALSE
    /\ pc' = "readFile"
    /\ UNCHANGED <<doc, options, visits, vi, resolvedValues, current, found,
                   entries, ei, lastIndex, outputs, envs, errorLog, failed,
                   uncaught>>

\* The callback of fs.readFile with an error: it is logged and the callback
\* returns.
ReadFileError ==
    /\ pc = "readFile"
    /\ errorLog' = Append(errorLog, ReadFailedText)
    /\ pc' = "done"
    /\ UNCHANGED <<doc, options, inTry, filterPattern, envPrefix, visits, vi,
                   resolvedValues, current, found, entries, ei, lastIndex,
                   outputs, envs, failed, uncaught>>

\* The callback of fs.readFile with the file's text: the document is parsed
\* and traverse(parsed) begins with an empty resolvedValues.
ReadFileLoaded ==
    /\ pc = "readFile"
    /\ visits' = Traverse(doc, <<>>)
    /\ vi' = 1
    /\ resolvedValues' = <<>>
    /\ pc' = "traverse"
    /\ UNCHANGED <<doc, options, inTry, filterPattern, envPrefix, current,
                   found, entries, ei, lastIndex, outputs, envs, errorLog,
                   failed, uncaught>>

\* traverse meets a sequence: core.setOutput(`${fullKey}.array`, val).
TraverseArray ==
    /\ pc = "traverse"
    /\ vi <= Len(visits)
    /\ visits[vi].op = "array"
    /\ outputs' = Append(outputs, [name |-> visits[vi].key, raw |-> visits[vi].val])
    /\ vi' = vi + 1
    /\ UNCHANGED <<doc, options, pc, inTry, filterPattern, envPrefix, visits,
                   resolvedValues, current, found, entries, ei, lastIndex,
                   envs, errorLog, failed, uncaught>>

\* traverse meets a leaf and calls resolveVariables(val, resolvedValues),
\* which starts with current = input.
TraverseLeaf ==
    /\ pc = "traverse"
    /\ vi <= Len(visits)
    /\ visits[vi].op = "leaf"
    /\ current' = visits[vi].val.s
    /\ pc' = "match"
    /\ UNCHANGED <<doc, options, inTry, filterPattern, envPrefix, visits, vi,
                   resolvedValues, found, entries, ei, lastIndex, outputs,
                   envs, errorLog, failed, uncaught>>

\* found = current.match(pattern), and the loop test: with no match
\* resolveVariables returns current, which traverse stores under fullKey.
Match ==
    /\ pc = "match"
    /\ found' = TokenMatch(current)
    /\ IF found' = NoMatch
       THEN /\ resolvedValues' = SetProperty(resolvedValues, visits[vi].key, current)
            /\ vi' = vi + 1
            /\ pc' = "traverse"
       ELSE /\ UNCHANGED <<resolvedValues, vi>>
            /\ pc' = "subst"
    /\ UNCHANGED <<doc, options, inTry, filterPattern, envPrefix, visits,
                   current, entries, ei, lastIndex, outputs, envs, errorLog,
                   failed, uncaught>>

\* An error thrown: run's catch hands its message to core.setFailed if the
\* try block is on the stack; otherwise no handler catches it.
Throw(message) ==
    IF inTry
    THEN /\ failed' = message
         /\ uncaught' = uncaught
         /\ pc' = "done"
    ELSE /\ failed' = failed
         /\ uncaught' = message
         /\ pc' = "uncaught"

\* The loop body: the name is looked up; a falsy value throws, any other
\* replaces the token in current.
Substitute ==
    /\ pc = "subst"
    /\ LET ref == found.ref
           v == LookupGet(resolvedValues, ref)
       IN  IF ~Truthy(v)
           THEN /\ Throw(UndefinedVariableMessage(ref))
                /\ current' = current
           ELSE /\ current' = StringReplace(current, found.text, v)
                /\ pc' = "match"
                /\ UNCHANGED <<failed, uncaught>>
    /\ UNCHANGED <<doc, options, inTry, filterPattern, envPrefix, visits, vi,
                   resolvedValues, found, entries, ei, lastIndex, outputs,
                   envs, errorLog>>

\* traverse(parsed) has returned: patternRegex is made and the publish loop
\* starts over Object.entries(resolvedValues).
TraverseDone ==
    /\ pc = "traverse"
    /\ vi > Len(visits)
    /\ entries' = ObjectEntries(resolvedValues)
    /\ ei' = 1
    /\ lastIndex' = 0
    /\ pc' = "publish"
    /\ UNCHANGED <<doc, options, inTry, filterPattern, envPrefix, visits, vi,
                   resolvedValues, current, found, outputs, envs, errorLog,
                   failed, uncaught>>

\* One round of the publish loop.
Publish ==
    /\ pc = "publish"
    /\ ei <= Len(entries)
    /\ LET fullKey == entries[ei][1]
           rawValue == entries[ei][2]
           r == IF filterPattern # <<>>
                THEN FilterKey(RegExpCompile(filterPattern), fullKey, lastIndex)
                ELSE [include |-> TRUE, outputKey |-> fullKey, lastIndex |-> lastIndex]
       IN  /\ lastIndex' = r.lastIndex
           /\ outputs' = IF r.include
                         THEN Append(outputs, [name |-> r.outputKey, raw |-> Leaf(rawValue)])
                         ELSE outputs
           /\ envs' = IF r.include /\ envPrefix # <<>>
                      THEN Append(envs, [name |-> EnvName(envPrefix, r.outputKey),
                                         value |-> rawValue])
                      ELSE envs
    /\ ei' = ei + 1
    /\ UNCHANGED <<doc, options, pc, inTry, filterPattern, envPrefix, visits,
                   vi, resolvedValues, current, found, entries, errorLog,
                   failed, uncaught>>

\* The publish loop is over and the callback returns.
PublishDone ==
    /\ pc = "publish"
    /\ ei > Len(entries)
    /\ pc' = "done"
    /\ UNCHANGED <<doc, options, inTry, filterPattern, envPrefix, visits, vi,
                   resolvedValues, current, found, entries, ei, lastIndex,
                   outputs, envs, errorLog, failed, uncaught>>

Next ==
    \/ ValidateSubscription
    \/ GetInputs
    \/ ReadFileError
    \/ ReadFileLoaded
    \/ TraverseArray
    \/ TraverseLeaf
    \/ Match
    \/ Substitute
    \/ TraverseDone
    \/ Publish
    \/ PublishDone

Spec == Init /\ [][Next]_vars

\* The event loop runs whatever is ready: a step that can be taken is taken.
FairSpec == Init /\ [][Next]_vars /\ WF_vars(Next)

\* ------------------------------------------------------------------ claims

\* t occurs in s.
Contains(s, t) == IndexOf(s, t) # 0

\* name is an own key of the mapping with a truthy (non-empty) value.
OwnTruthy(ps, name) == HasOwn(ps, name) /\ OwnValue(ps, name) # <<>>

IsScalarOutput(o) == o.raw.kind = "string"

\* The outputs published for keys of the resolved mapping (the raw .array
\* outputs of traverse left out).
ScalarOutputs == SelectSeq(outputs, IsScalarOutput)

\* The entries the publish loop has dealt with.
Processed == SubSeq(entries, 1, ei - 1)

\* C1: resolving a leaf that holds a token $(name) fails with an error whose
\* message names name whenever name is not a key of the mapping resolved so
\* far or its value is falsy, and nothing is stored for the leaf.
C1_UndefinedNameFails ==
    [][(pc = "subst" /\ ~OwnTruthy(resolvedValues, found.ref))
        => /\ pc' \in {"uncaught", "done"}
           /\ Contains(uncaught' \o failed', found.ref)
           /\ resolvedValues' = resolvedValues]_vars

\* The leaves of a node in declaration order, each with its flat key.
RECURSIVE DeclaredLeaves(_, _)
DeclaredLeaves(node, path) ==
    LET RECURSIVE Walk(_)
        Walk(i) ==
            IF i > Len(node.kids) THEN <<>>
            ELSE LET key == node.kids[i][1]
                     val == node.kids[i][2]
                     fullKey == IF path # <<>> THEN path \o <<".">> \o key ELSE key
                 IN  (IF IsContainer(val) THEN DeclaredLeaves(val, fullKey)
                      ELSE <<[key |-> fullKey, val |-> val.s]>>)
                     \o Walk(i + 1)
    IN  Walk(1)

\* C2: children are visited in declaration order and a leaf may only refer
\* to keys declared before it: no document with a leaf that holds $(k), k
\* being declared only after that leaf, gets through the traversal.
C2_ForwardReferenceFails ==
    pc = "publish" =>
        LET leaves == DeclaredLeaves(doc, <<>>)
        IN  \A i, j \in 1..Len(leaves) :
                (/\ i < j
                 /\ \A h \in 1..i : leaves[h].key # leaves[j].key)
                => ~Contains(leaves[i].val, Token(leaves[j].key))

\* The text the claim gives for a string: the leftmost token is replaced, all
\* of it, by the value of its name character for character, and the result is
\* scanned again from its start. ok is whether every name met was defined.
RECURSIVE ExactResolve(_, _)
ExactResolve(str, ps) ==
    LET m == TokenMatch(str)
    IN  IF m = NoMatch THEN [ok |-> TRUE, s |-> str]
        ELSE IF ~OwnTruthy(ps, m.ref) THEN [ok |-> FALSE, s |-> str]
        ELSE ExactResolve(SubSeq(str, 1, m.index - 1) \o OwnValue(ps, m.ref)
                          \o SubSeq(str, m.index + Len(m.text), Len(str)), ps)

\* C3: when every name referred to is defined, what resolveVariables returns
\* for a string is the string with each token replaced by the exact text of
\* its value.
C3_ExactSubstitution ==
    (/\ pc = "match"
     /\ TokenMatch(current) = NoMatch
     /\ ExactResolve(visits[vi].val.s, resolvedValues).ok)
    => current = ExactResolve(visits[vi].val.s, resolvedValues).s

\* C4: the substitution loop ends: once in its body, it throws or returns
\* (a string without a token) to traverse.
C4_LoopTerminates ==
    (pc = "subst") ~> (pc \in {"traverse", "uncaught", "done"})

\* The pattern matches somewhere in the key.
MatchesSomewhere(re, key) == \E k \in 0..Len(key) : RegExpMatchesAt(re, key, k)

\* The key with its first (leftmost) match cut out.
WithoutFirstMatch(re, key) ==
    LET k == CHOOSE a \in 0..Len(key) :
                /\ RegExpMatchesAt(re, key, a)
                /\ \A b \in 0..Len(key) : b < a => ~RegExpMatchesAt(re, key, b)
    IN  SubSeq(key, 1, k) \o SubSeq(key, k + Len(re.atoms) + 1, Len(key))

\* The key with every match cut out, the matches taken from left to right
\* and not overlapping: read from offset k on.
RECURSIVE WithoutEveryMatchFrom(_, _, _)
WithoutEveryMatchFrom(re, key, k) ==
    IF k >= Len(key) \/ re.atoms = <<>> THEN SubSeq(key, k + 1, Len(key))
    ELSE IF RegExpMatchesAt(re, key, k)
         THEN WithoutEveryMatchFrom(re, key, k + Len(re.atoms))
         ELSE <<key[k + 1]>> \o WithoutEveryMatchFrom(re, key, k + 1)

WithoutEveryMatch(re, key) == WithoutEveryMatchFrom(re, key, 0)

\* The entries of es whose key the pattern matches somewhere, in order.
MatchedEntries(re, es) ==
    LET Matched(e) == MatchesSomewhere(re, e[1])
    IN  SelectSeq(es, Matched)

\* C5, as stated: with a filter pattern, a flat key is published if and only
\* if the pattern matches somewhere in it, under the key with only the first
\* match removed.
C5_FirstMatchRemoved ==
    (pc \in {"publish", "done"} /\ filterPattern # <<>>)
    => LET re == RegExpCompile(filterPattern)
           kept == MatchedEntries(re, Processed)
       IN  ScalarOutputs =
              [i \in 1..Len(kept) |->
                  [name |-> WithoutFirstMatch(re, kept[i][1]), raw |-> Leaf(kept[i][2])]]

\* C5, amended: with a filter pattern, a flat key is published if and only
\* if the pattern matches somewhere in it, under the key with every match of
\* the pattern removed.
C5_EveryMatchRemoved ==
    (pc \in {"publish", "done"} /\ filterPattern # <<>>)
    => LET re == RegExpCompile(filterPattern)
           kept == MatchedEntries(re, Processed)
       IN  ScalarOutputs =
              [i \in 1..Len(kept) |->
                  [name |-> WithoutEveryMatch(re, kept[i][1]), raw |-> Leaf(kept[i][2])]]

\* A key with two matches of the pattern was published and another key was
\* left out.
C5_Witness ==
    /\ pc = "done"
    /\ filterPattern # <<>>
    /\ \E i, j \in 1..Len(entries) :
          LET re == RegExpCompile(filterPattern)
          IN  /\ MatchesSomewhere(re, entries[i][1])
              /\ WithoutFirstMatch(re, entries[i][1]) # WithoutEveryMatch(re, entries[i][1])
              /\ ~MatchesSomewhere(re, entries[j][1])
              /\ \E o \in 1..Len(outputs) :
                    outputs[o].name = WithoutEveryMatch(re, entries[i][1])

\* C6: the filter is the option key-path: set to a pattern, keys it does not
\* match are not published and matching keys are renamed. (The other half,
\* every key published under its own name when key-path is absent, is left
\* out of the formula: it adds nothing to what refutes the claim.)
C6_KeyPathOptionFilters ==
    (pc \in {"publish", "done"} /\ GetInput(options, "key-path") # <<>>)
    => LET re == RegExpCompile(GetInput(options, "key-path"))
           kept == MatchedEntries(re, Processed)
       IN  ScalarOutputs =
              [i \in 1..Len(kept) |->
                  [name |-> WithoutEveryMatch(re, kept[i][1]), raw |-> Leaf(kept[i][2])]]

\* C7: an UndefinedVariable error raised by a leaf reaches run's handler:
\* core.setFailed gets its message, and it is never left uncaught.
C7_UndefinedVariableSetsFailed ==
    (uncaught # <<>> \/ failed # <<>>) => (failed # <<>> /\ uncaught = <<>>)

\* Every "." and every "-" of the key replaced by "_".
Cleaned(key) == [i \in 1..Len(key) |-> IF key[i] \in {".", "-"} THEN "_" ELSE key[i]]

\* C8: an environment assignment is made for a key if and only if
\* env-var-prefix is set and the key is published; its name is the prefix,
\* "_" and the output key with every "." and "-" replaced by "_", and its
\* value is that of the key's output.
C8_EnvAssignments ==
    IF GetInput(options, "env-var-prefix") = <<>>
    THEN envs = <<>>
    ELSE /\ Len(envs) = Len(ScalarOutputs)
         /\ Len(envs) = IF filterPattern = <<>> THEN Len(Processed)
                        ELSE Len(MatchedEntries(RegExpCompile(filterPattern), Processed))
         /\ \A i \in 1..Len(envs) :
               /\ envs[i].name = GetInput(options, "env-var-prefix") \o <<"_">>
                                 \o Cleaned(ScalarOutputs[i].name)
               /\ envs[i].value = ScalarOutputs[i].raw.s

\* With a prefix set, keys holding "." and "-" were published and assigned,
\* and with a filter a key was left out and got no assignment.
C8_Witness ==
    /\ pc = "done"
    /\ GetInput(options, "env-var-prefix") # <<>>
    /\ filterPattern # <<>>
    /\ Len(envs) > 0
    /\ Len(envs) < Len(entries)
    /\ \E i \in 1..Len(envs) :
          \E a, b \in 1..Len(ScalarOutputs[i].name) :
              ScalarOutputs[i].name[a] = "." /\ ScalarOutputs[i].name[b] = "-"

\* What the filter gives for a key that is the only key processed: a test
\* and a replace on a regular expression just made.
AloneResult(re, key) ==
    [include |-> RegExpTest(re, key, 0).result, outputKey |-> RegExpReplaceAll(re, key)]

RECURSIVE AloneOutputs(_, _)
AloneOutputs(re, es) ==
    IF es = <<>> THEN <<>>
    ELSE (IF AloneResult(re, es[1][1]).include
          THEN <<[name |-> AloneResult(re, es[1][1]).outputKey, raw |-> Leaf(es[1][2])]>>
          ELSE <<>>)
         \o AloneOutputs(re, Tail(es))

\* C9: patternRegex.lastIndex is 0 at the start of every key's test, and
\* what is published for the keys is what each key gives processed alone.
C9_KeysDecidedAlone ==
    pc = "publish" =>
        /\ ei <= Len(entries) => lastIndex = 0
        /\ filterPattern # <<>> =>
              ScalarOutputs = AloneOutputs(RegExpCompile(filterPattern), Processed)

\* The loop is about to test a key after a key that the pattern matched (the
\* test of that key left lastIndex past the match).
C9_Witness ==
    /\ pc = "publish"
    /\ filterPattern # <<>>
    /\ ei > 1
    /\ ei <= Len(entries)
    /\ RegExpTest(RegExpCompile(filterPattern), entries[ei - 1][1], 0).result
    /\ RegExpTest(RegExpCompile(filterPattern), entries[ei - 1][1], 0).lastIndex > 0

\* C10: no two leaves of a document give the same flat key, so no entry of
\* the resolved mapping is overwritten.
C10_FlatKeysUnique ==
    /\ \A i, j \in 1..Len(visits) :
          (visits[i].op = "leaf" /\ visits[j].op = "leaf" /\ visits[i].key = visits[j].key)
          => i = j
    /\ pc = "publish" =>
          Len(resolvedValues) = Cardinality({i \in 1..Len(visits) : visits[i].op = "leaf"})

====
